---- MODULE Spec2Model ----
\* Model of the 2048 board engine, class Game2048 of src/src/game2048.py:
\* the fields of one engine instance, its constructor, move() and reset(),
\* and the private helpers they call.
EXTENDS Integers, Sequences, FiniteSets, TLC

VARIABLES
    size,       \* Game2048.size
    board,      \* Game2048.board: a sequence of rows, each a sequence of cells
    score,      \* Game2048.score
    game_over,  \* Game2048.game_over
    won,        \* Game2048.won
    moved,      \* Game2048.moved
    op,         \* the last operation performed on the engine
    dir,        \* the direction argument of the last move() call
    ret,        \* the value the last move() call returned
    before,     \* the engine's fields when the last move() call was entered
    slid,       \* the board of the last move() call after its slide phase
    moves,      \* effective moves counted against MaxMoves since construction/reset
    returned,   \* the matrix the last get_board() call returned, as its caller holds it
    ui          \* the main window showing the engine, if there is one

vars ==
    <<size, board, score, game_over, won, moved, op, dir, ret, before, slid, moves,
      returned, ui>>

----------------------------------------------------------------------------
\* Bounds of the exploration and constants of the program.

\* Effective moves explored per game on boards that are not explored in full.
MaxMoves == 1

\* Largest board size constructed in SpecConstruct.
MaxSize == 4

\* Writes explored on one matrix returned by get_board().
MaxWrites == 1

\* Default board size, the size of the boards the tests set up.
DefaultSize == 4

\* The tile value that wins the game.
WinTile == 2048

\* Board sizes constructed and played in Spec.
PlaySizes == {0, 1, 2}

\* Board sizes whose whole game tree is explored (it is finite and small).
FullSizes == {0, 1, 2}

\* The direction strings move() recognizes, and one it does not.
Directions == {"left", "right", "up", "down"}

AnyDirection == Directions \cup {"diagonal"}

\* The values _add_random_tile can place.
SpawnValues == {2, 4}

----------------------------------------------------------------------------
\* Helpers on sequences and boards.

\* A function on 1..k as a sequence value, its elements evaluated once.
AsSeq(f) == f \o <<>>

Zeros(k) == AsSeq([j \in 1..k |-> 0])

EmptyBoard(n) == AsSeq([r \in 1..n |-> Zeros(n)])

RECURSIVE SumSeq(_)
SumSeq(s) == IF s = <<>> THEN 0 ELSE Head(s) + SumSeq(Tail(s))

\* [tile for tile in line if tile != 0]
NonZeroTiles(line) == SelectSeq(line, LAMBDA t : t # 0)

\* Variant: the indices are exchanged, so that a row is read.
ColumnReadsRow(b, c) == AsSeq([r \in 1..Len(b) |-> b[c][r]])

\* [self.board[row][col] for row in range(self.size)]
Column(b, c) == AsSeq([r \in 1..Len(b) |-> b[r][c]])

\* The (row, col) pairs with self.board[row][col] == 0.
EmptyCells(b) ==
    {rc \in (1..Len(b)) \X (1..Len(b)) : b[rc[1]][rc[2]] = 0}

----------------------------------------------------------------------------
\* The merge loops of the four slide routines. Each returns the merged tiles
\* and the score the merges add.

\* Variant: the merged tile is put back and paired again with what follows.
RECURSIVE MergeForwardCascades(_, _)
MergeForwardCascades(tiles, i) ==
    IF i > Len(tiles) THEN [tiles |-> <<>>, gain |-> 0]
    ELSE IF i + 1 <= Len(tiles) /\ tiles[i] = tiles[i + 1]
         THEN LET rest == MergeForwardCascades(
                              <<tiles[i] * 2>> \o SubSeq(tiles, i + 2, Len(tiles)), 1)
              IN  [tiles |-> rest.tiles, gain |-> tiles[i] * 2 + rest.gain]
         ELSE LET rest == MergeForwardCascades(tiles, i + 1)
              IN  [tiles |-> <<tiles[i]>> \o rest.tiles, gain |-> rest.gain]

\* Variant: a tile is also paired with the equal tile after its neighbour.
RECURSIVE MergeForwardSkips(_, _)
MergeForwardSkips(tiles, i) ==
    IF i > Len(tiles) THEN [tiles |-> <<>>, gain |-> 0]
    ELSE IF i + 1 <= Len(tiles) /\ tiles[i] = tiles[i + 1]
         THEN LET rest == MergeForwardSkips(tiles, i + 2)
              IN  [tiles |-> <<tiles[i] * 2>> \o rest.tiles,
                   gain  |-> tiles[i] * 2 + rest.gain]
         ELSE IF i + 2 <= Len(tiles) /\ tiles[i] = tiles[i + 2]
         THEN LET rest == MergeForwardSkips(tiles, i + 3)
              IN  [tiles |-> <<tiles[i] * 2, tiles[i + 1]>> \o rest.tiles,
                   gain  |-> tiles[i] * 2 + rest.gain]
         ELSE LET rest == MergeForwardSkips(tiles, i + 1)
              IN  [tiles |-> <<tiles[i]>> \o rest.tiles, gain |-> rest.gain]

\* while i < len(tiles): pair tiles[i] with tiles[i + 1], scanning forward.
RECURSIVE MergeForward(_, _)
MergeForward(tiles, i) ==
    IF i > Len(tiles) THEN [tiles |-> <<>>, gain |-> 0]
    ELSE IF i + 1 <= Len(tiles) /\ tiles[i] = tiles[i + 1]
         THEN LET rest == MergeForward(tiles, i + 2)
              IN  [tiles |-> <<tiles[i] * 2>> \o rest.tiles,
                   gain  |-> tiles[i] * 2 + rest.gain]
         ELSE LET rest == MergeForward(tiles, i + 1)
              IN  [tiles |-> <<tiles[i]>> \o rest.tiles, gain |-> rest.gain]

\* Variant: the merged tile keeps the value of one tile of the pair.
RECURSIVE MergeBackwardKeepsValue(_, _)
MergeBackwardKeepsValue(tiles, i) ==
    IF i < 1 THEN [tiles |-> <<>>, gain |-> 0]
    ELSE IF i - 1 >= 1 /\ tiles[i] = tiles[i - 1]
         THEN LET rest == MergeBackwardKeepsValue(tiles, i - 2)
              IN  [tiles |-> rest.tiles \o <<tiles[i]>>,
                   gain  |-> tiles[i] * 2 + rest.gain]
         ELSE LET rest == MergeBackwardKeepsValue(tiles, i - 1)
              IN  [tiles |-> rest.tiles \o <<tiles[i]>>, gain |-> rest.gain]

\* Variant: a merge adds the value of one tile, not the doubled value.
RECURSIVE MergeBackwardAddsTile(_, _)
MergeBackwardAddsTile(tiles, i) ==
    IF i < 1 THEN [tiles |-> <<>>, gain |-> 0]
    ELSE IF i - 1 >= 1 /\ tiles[i] = tiles[i - 1]
         THEN LET rest == MergeBackwardAddsTile(tiles, i - 2)
              IN  [tiles |-> rest.tiles \o <<tiles[i] * 2>>,
                   gain  |-> tiles[i] + rest.gain]
         ELSE LET rest == MergeBackwardAddsTile(tiles, i - 1)
              IN  [tiles |-> rest.tiles \o <<tiles[i]>>, gain |-> rest.gain]

\* while i >= 0: pair tiles[i] with tiles[i - 1], scanning backward and
\* inserting at the front of merged_tiles.
RECURSIVE MergeBackward(_, _)
MergeBackward(tiles, i) ==
    IF i < 1 THEN [tiles |-> <<>>, gain |-> 0]
    ELSE IF i - 1 >= 1 /\ tiles[i] = tiles[i - 1]
         THEN LET rest == MergeBackward(tiles, i - 2)
              IN  [tiles |-> rest.tiles \o <<tiles[i] * 2>>,
                   gain  |-> tiles[i] * 2 + rest.gain]
         ELSE LET rest == MergeBackward(tiles, i - 1)
              IN  [tiles |-> rest.tiles \o <<tiles[i]>>, gain |-> rest.gain]

\* Variant: the merged tiles are followed by as many zeros as the line is long.
LineToFrontPadsSize(line) ==
    LET m == MergeForward(NonZeroTiles(line), 1)
    IN  [line |-> m.tiles \o Zeros(Len(line)), gain |-> m.gain]

\* One line moved toward its first cell: merged tiles, then zeros.
LineToFront(line) ==
    LET m == MergeForward(NonZeroTiles(line), 1)
    IN  [line |-> m.tiles \o Zeros(Len(line) - Len(m.tiles)), gain |-> m.gain]

\* Variant: the tiles are paired scanning forward, as in the move to the front.
LineToBackPairsForward(line) ==
    LET m == MergeForward(NonZeroTiles(line), 1)
    IN  [line |-> Zeros(Len(line) - Len(m.tiles)) \o m.tiles, gain |-> m.gain]

\* One line moved toward its last cell: zeros, then merged tiles.
LineToBack(line) ==
    LET t == NonZeroTiles(line)
        m == MergeBackward(t, Len(t))
    IN  [line |-> Zeros(Len(line) - Len(m.tiles)) \o m.tiles, gain |-> m.gain]

\* The result of a slide routine: the board, the score added, the flag returned.
SlideRows(b, n, lines) ==
    [board |-> AsSeq([r \in 1..n |-> lines[r].line]),
     gain  |-> SumSeq(AsSeq([r \in 1..n |-> lines[r].gain])),
     moved |-> \E r \in 1..n : lines[r].line # b[r]]

\* Variant: the flag is overwritten by every column, not accumulated.
SlideColumnsLastOnly(b, n, lines) ==
    [board |-> AsSeq([r \in 1..n |-> AsSeq([c \in 1..n |-> lines[c].line[r]])]),
     gain  |-> SumSeq(AsSeq([c \in 1..n |-> lines[c].gain])),
     moved |-> n >= 1 /\ \E r \in 1..n : b[r][n] # lines[n].line[r]]

SlideColumns(b, n, lines) ==
    [board |-> AsSeq([r \in 1..n |-> AsSeq([c \in 1..n |-> lines[c].line[r]])]),
     gain  |-> SumSeq(AsSeq([c \in 1..n |-> lines[c].gain])),
     moved |-> \E c \in 1..n : \E r \in 1..n : b[r][c] # lines[c].line[r]]

move_left(b, n) == SlideRows(b, n, AsSeq([r \in 1..n |-> LineToFront(b[r])]))

move_right(b, n) == SlideRows(b, n, AsSeq([r \in 1..n |-> LineToBack(b[r])]))

move_up(b, n) ==
    SlideColumns(b, n, AsSeq([c \in 1..n |-> LineToFront(Column(b, c))]))

move_down(b, n) ==
    SlideColumns(b, n, AsSeq([c \in 1..n |-> LineToBack(Column(b, c))]))

\* Variant: the last branch is an else, so that any other string moves down.
SlideElseDown(b, n, d) ==
    CASE d = "left"  -> move_left(b, n)
      [] d = "right" -> move_right(b, n)
      [] d = "up"    -> move_up(b, n)
      [] OTHER       -> move_down(b, n)

\* The dispatch of move(): an unrecognized direction runs no slide routine.
Slide(b, n, d) ==
    CASE d = "left"  -> move_left(b, n)
      [] d = "right" -> move_right(b, n)
      [] d = "up"    -> move_up(b, n)
      [] d = "down"  -> move_down(b, n)
      [] OTHER       -> [board |-> b, gain |-> 0, moved |-> FALSE]

----------------------------------------------------------------------------
\* The random draws of _add_random_tile, each value of a draw equally likely.
\* random.random() is drawn as the tenth of [0, 1) it falls in, and
\* random.choice(seq) as the position it picks.
Tenths == 0..9

\* [(row, col) for row in range(size) for col in range(size)
\*  if self.board[row][col] == 0], with rows and columns counted from 1.
empty_cells(b) ==
    LET n == Len(b)
    IN  SelectSeq(AsSeq([i \in 1..(n * n) |-> <<((i - 1) \div n) + 1, ((i - 1) % n) + 1>>]),
                  LAMBDA rc : b[rc[1]][rc[2]] = 0)

\* random.choice(seq), when it picks position i.
random_choice(seq, i) == seq[i]

\* Variant: the comparison is with 0.1.
spawn_value_mostly_four(t) == IF t < 1 THEN 2 ELSE 4

\* 2 if random.random() < 0.9 else 4, when random.random() falls in tenth t.
spawn_value(t) == IF t < 9 THEN 2 ELSE 4

\* _add_random_tile on a board with an empty cell, when random.choice picks
\* position i and random.random() falls in tenth t.
add_random_tile_drawn(b, i, t) ==
    LET rc == random_choice(empty_cells(b), i)
    IN  [b EXCEPT ![rc[1]][rc[2]] = spawn_value(t)]

\* Variant: the cell is chosen among all cells, empty or not.
add_random_tile_anywhere(b) ==
    {[b EXCEPT ![rc[1]][rc[2]] = v] :
        rc \in (1..Len(b)) \X (1..Len(b)), v \in SpawnValues} \cup
    (IF Len(b) = 0 THEN {b} ELSE {})

\* Variant: with no empty cell the tile replaces the first cell.
add_random_tile_unguarded(b) ==
    IF EmptyCells(b) = {}
    THEN IF Len(b) = 0 THEN {b}
         ELSE {[b EXCEPT ![1][1] = v] : v \in SpawnValues}
    ELSE {[b EXCEPT ![rc[1]][rc[2]] = v] : rc \in EmptyCells(b), v \in SpawnValues}

\* Variant: the call may also place no tile at all.
add_random_tile_may_skip(b) ==
    {b} \cup {[b EXCEPT ![rc[1]][rc[2]] = v] : rc \in EmptyCells(b), v \in SpawnValues}

\* _add_random_tile: the boards it can produce from board b. With no empty
\* cell it leaves the board as it is.
add_random_tile(b) ==
    IF EmptyCells(b) = {} THEN {b}
    ELSE {[b EXCEPT ![rc[1]][rc[2]] = v] : rc \in EmptyCells(b), v \in SpawnValues}

\* Variant: only the first row is searched for the winning tile.
check_game_state_first_row(b, n, w, g) ==
    IF n >= 1 /\ \E c \in 1..n : b[1][c] = WinTile
    THEN [won |-> TRUE, game_over |-> g]
    ELSE IF \E r \in 1..n : \E c \in 1..n : b[r][c] = 0
    THEN [won |-> w, game_over |-> g]
    ELSE IF \E r \in 1..n : \E c \in 1..n :
                \/ c < n /\ b[r][c] = b[r][c + 1]
                \/ r < n /\ b[r][c] = b[r + 1][c]
    THEN [won |-> w, game_over |-> g]
    ELSE [won |-> w, game_over |-> TRUE]

\* Variant: only the right neighbour is compared, not the bottom neighbour.
check_game_state_no_bottom(b, n, w, g) ==
    IF \E r \in 1..n : \E c \in 1..n : b[r][c] = WinTile
    THEN [won |-> TRUE, game_over |-> g]
    ELSE IF \E r \in 1..n : \E c \in 1..n : b[r][c] = 0
    THEN [won |-> w, game_over |-> g]
    ELSE IF \E r \in 1..n : \E c \in 1..n : c < n /\ b[r][c] = b[r][c + 1]
    THEN [won |-> w, game_over |-> g]
    ELSE [won |-> w, game_over |-> TRUE]

\* Variant: the cell diagonally below is compared too.
check_game_state_diagonal(b, n, w, g) ==
    IF \E r \in 1..n : \E c \in 1..n : b[r][c] = WinTile
    THEN [won |-> TRUE, game_over |-> g]
    ELSE IF \E r \in 1..n : \E c \in 1..n : b[r][c] = 0
    THEN [won |-> w, game_over |-> g]
    ELSE IF \E r \in 1..n : \E c \in 1..n :
                \/ c < n /\ b[r][c] = b[r][c + 1]
                \/ r < n /\ b[r][c] = b[r + 1][c]
                \/ r < n /\ c < n /\ b[r][c] = b[r + 1][c + 1]
    THEN [won |-> w, game_over |-> g]
    ELSE [won |-> w, game_over |-> TRUE]

\* Variant: the return after self.won = True is missing.
check_game_state_no_return(b, n, w, g) ==
    LET w2 == w \/ \E r \in 1..n : \E c \in 1..n : b[r][c] = WinTile
    IN  IF \E r \in 1..n : \E c \in 1..n : b[r][c] = 0
        THEN [won |-> w2, game_over |-> g]
        ELSE IF \E r \in 1..n : \E c \in 1..n :
                    \/ c < n /\ b[r][c] = b[r][c + 1]
                    \/ r < n /\ b[r][c] = b[r + 1][c]
        THEN [won |-> w2, game_over |-> g]
        ELSE [won |-> w2, game_over |-> TRUE]

\* Variant: the search for an empty cell is missing.
check_game_state_ignores_empty(b, n, w, g) ==
    IF \E r \in 1..n : \E c \in 1..n : b[r][c] = WinTile
    THEN [won |-> TRUE, game_over |-> g]
    ELSE IF \E r \in 1..n : \E c \in 1..n :
                \/ c < n /\ b[r][c] = b[r][c + 1]
                \/ r < n /\ b[r][c] = b[r + 1][c]
    THEN [won |-> w, game_over |-> g]
    ELSE [won |-> w, game_over |-> TRUE]

\* _check_game_state: the flags after it ran on board b.
check_game_state(b, n, w, g) ==
    IF \E r \in 1..n : \E c \in 1..n : b[r][c] = WinTile
    THEN [won |-> TRUE, game_over |-> g]
    ELSE IF \E r \in 1..n : \E c \in 1..n : b[r][c] = 0
    THEN [won |-> w, game_over |-> g]
    ELSE IF \E r \in 1..n : \E c \in 1..n :
                \/ c < n /\ b[r][c] = b[r][c + 1]
                \/ r < n /\ b[r][c] = b[r + 1][c]
    THEN [won |-> w, game_over |-> g]
    ELSE [won |-> w, game_over |-> TRUE]

\* The engine's fields.
Fields ==
    [board |-> board, score |-> score, won |-> won,
     game_over |-> game_over, moved |-> moved]

\* Variant: move() has no guard on the terminal flags.
RefusedNever(f) == FALSE

\* Variant: a won game is not refused.
RefusedOnlyGameOver(f) == f.game_over

\* if self.game_over or self.won: return False
Refused(f) == f.game_over \/ f.won

\* Variant: the score is assigned, not added to.
AddScoreAssigns(sc, gain) == gain

\* self.score += tiles[i] * 2, for all the merges of one move
AddScore(sc, gain) == sc + gain

\* Variant: the spawn and the terminal detection run after every slide.
SpawnsAlways(s) == TRUE

\* Variant: no tile is spawned and terminal detection never runs.
SpawnsNever(s) == FALSE

\* if self.moved:
Spawns(s) == s.moved

\* Variant: terminal detection runs on the slide result, before the spawn.
spawn_and_check_checks_first(f, n, s) ==
    UNION {{[board |-> nb, score |-> AddScore(f.score, s.gain),
             won |-> c.won, game_over |-> c.game_over, moved |-> s.moved,
             ret |-> s.moved, slid |-> s.board] :
               c \in {check_game_state(s.board, n, f.won, f.game_over)}} :
           nb \in add_random_tile(s.board)}

\* Variant: terminal detection is not run after the spawn.
spawn_and_check_skips_check(f, n, s) ==
    UNION {{[board |-> nb, score |-> AddScore(f.score, s.gain),
             won |-> f.won, game_over |-> f.game_over, moved |-> s.moved,
             ret |-> s.moved, slid |-> s.board]} :
           nb \in add_random_tile(s.board)}

\* self._add_random_tile(); self._check_game_state(); return self.moved
\* with s the result of the slide routine.
spawn_and_check(f, n, s) ==
    UNION {{[board |-> nb, score |-> AddScore(f.score, s.gain),
             won |-> c.won, game_over |-> c.game_over, moved |-> s.moved,
             ret |-> s.moved, slid |-> s.board] :
               c \in {check_game_state(nb, n, f.won, f.game_over)}} :
           nb \in add_random_tile(s.board)}

\* Variant: a won game is not refused, and won is derived from the board
\* after every effective move.
move_outcomes_derives_won(f, n, d) ==
    IF f.game_over
    THEN {[board |-> f.board, score |-> f.score, won |-> f.won,
           game_over |-> f.game_over, moved |-> f.moved,
           ret |-> FALSE, slid |-> f.board]}
    ELSE UNION {IF Spawns(s)
                THEN {[o EXCEPT !.won = \E r \in 1..n : \E k \in 1..n :
                                             o.board[r][k] = WinTile] :
                         o \in spawn_and_check(f, n, s)}
                ELSE {[board |-> s.board, score |-> AddScore(f.score, s.gain),
                       won |-> f.won, game_over |-> f.game_over,
                       moved |-> s.moved, ret |-> s.moved, slid |-> s.board]} :
                s \in {Slide(f.board, n, d)}}

\* move(direction) on an engine with fields f and size n: the fields it can
\* leave, each with the value returned (ret) and the board after the slide
\* phase (slid).
move_outcomes(f, n, d) ==
    IF Refused(f)
    THEN {[board |-> f.board, score |-> f.score, won |-> f.won,
           game_over |-> f.game_over, moved |-> f.moved,
           ret |-> FALSE, slid |-> f.board]}
    ELSE UNION {IF Spawns(s)
                THEN spawn_and_check(f, n, s)
                ELSE {[board |-> s.board, score |-> AddScore(f.score, s.gain),
                       won |-> f.won, game_over |-> f.game_over,
                       moved |-> s.moved, ret |-> s.moved, slid |-> s.board]} :
                s \in {Slide(f.board, n, d)}}

----------------------------------------------------------------------------
\* Construction: Game2048(size = n).

\* The boards __init__ and reset() can produce: two calls of
\* _add_random_tile on the all-zero board.
\* Variant: a single call of _add_random_tile.
one_spawn(n) == add_random_tile(EmptyBoard(n))

two_spawns(n) ==
    UNION {add_random_tile(b1) : b1 \in add_random_tile(EmptyBoard(n))}

\* two_spawns(n) for the sizes of the model, evaluated once.
FreshBoardsTable == AsSeq([n \in 1..(MaxSize + 1) |-> two_spawns(n)])

FreshBoards(n) ==
    IF n \in DOMAIN FreshBoardsTable THEN FreshBoardsTable[n] ELSE two_spawns(n)

\* The fields __init__ sets, with the board b its two spawns produced.
init_fields(b) ==
    [board |-> b, score |-> 0, won |-> FALSE, game_over |-> FALSE, moved |-> FALSE]

\* Variant: the flags are left as they are.
reset_fields_keeps_flags(b) ==
    [board |-> b, score |-> 0, won |-> won, game_over |-> game_over, moved |-> FALSE]

\* The fields reset() sets, with the board b its two spawns produced.
reset_fields(b) ==
    [board |-> b, score |-> 0, won |-> FALSE, game_over |-> FALSE, moved |-> FALSE]

\* get_board() has not been called: the caller holds no matrix.
NoMatrix == [matrix |-> <<>>, same_list |-> FALSE, same_rows |-> {}, writes |-> 0]

\* No main window shows the engine: the tests drive it directly.
NoWindow ==
    [previous_board |-> <<>>, new_tiles |-> {}, handler |-> "none",
     moved |-> FALSE, redraws |-> 0, prompt |-> "none",
     win_shown |-> 0, over_shown |-> 0, dialog |-> "none"]

\* An engine with fields f on which no method has been called yet.
HoldsFields(f) ==
    /\ board = f.board
    /\ score = f.score
    /\ won = f.won
    /\ game_over = f.game_over
    /\ moved = f.moved
    /\ dir = "none"
    /\ ret = FALSE
    /\ before = f
    /\ slid = f.board
    /\ moves = 0
    /\ returned = NoMatrix

\* The engine holds the fields f and no move() call has been made on it.
Holds(f) == HoldsFields(f) /\ ui = NoWindow

Constructed(n) ==
    /\ size = n
    /\ op = "init"
    /\ \E b \in FreshBoards(n) : Holds(init_fields(b))

Init == \E n \in PlaySizes : Constructed(n)

\* Whether one more effective move is explored from this state.
WithinBudget == size \in FullSizes \/ moves < MaxMoves

\* move(direction) on an engine with fields f would return True: the call is
\* not refused and the slide changes a cell.
Effective(f, n, d) == ~Refused(f) /\ Slide(f.board, n, d).moved

\* move(direction). A call that would return True is explored within the
\* budget only.
move(d) ==
    \E o \in IF WithinBudget \/ ~Effective(Fields, size, d)
              THEN move_outcomes(Fields, size, d)
              ELSE {} :
        /\ o.ret => WithinBudget
        /\ board' = o.board
        /\ score' = o.score
        /\ won' = o.won
        /\ game_over' = o.game_over
        /\ moved' = o.moved
        /\ op' = "move"
        /\ dir' = d
        /\ ret' = o.ret
        /\ before' = Fields
        /\ slid' = o.slid
        /\ moves' = IF o.ret /\ size \notin FullSizes THEN moves + 1 ELSE moves
        /\ UNCHANGED <<size, returned, ui>>

\* reset(). It overwrites the board without reading it: `before` keeps the
\* other fields as they were on entry, with the new board.
reset ==
    \E b \in FreshBoards(size) :
        \E f \in {reset_fields(b)} :
            /\ board' = f.board
            /\ score' = f.score
            /\ won' = f.won
            /\ game_over' = f.game_over
            /\ moved' = f.moved
            /\ op' = "reset"
            /\ dir' = "none"
            /\ ret' = FALSE
            /\ before' = [Fields EXCEPT !.board = f.board]
            /\ slid' = f.board
            /\ moves' = 0
            /\ UNCHANGED <<size, returned, ui>>

Next ==
    \/ \E d \in AnyDirection : move(d)
    \/ reset

Spec == Init /\ [][Next]_vars

----------------------------------------------------------------------------
\* SpecMove: move() applied to the engine as constructed and as the tests of
\* tests/test_game.py set it up: a constructed engine of the default size
\* whose board (and score) is then assigned directly.

\* Three full rows in which no two neighbours are equal.
Filler == << <<8, 16, 8, 16>>, <<16, 8, 16, 8>>, <<8, 16, 8, 16>> >>

\* The values of the line under test.
LineValues == {0, 2, 4}

Transpose(b) == AsSeq([r \in 1..Len(b) |-> Column(b, r)])

\* A first row of any content above the filler rows, and the same with the
\* line under test as the first column.
LineBoards ==
    LET rows == {<<l>> \o Filler : l \in [1..DefaultSize -> LineValues]}
    IN  rows \cup {Transpose(b) : b \in rows}

\* The board of test_merge_cascading: one row on an otherwise empty board.
ScoredBoard == << <<2, 2, 4, 4>>, Zeros(DefaultSize), Zeros(DefaultSize), Zeros(DefaultSize) >>

\* Other boards the tests assign: the empty board, four equal tiles, and two
\* 1024 tiles in a row or in a column.
TestBoards ==
    LET Z == Zeros(DefaultSize)
    IN  { <<Z, Z, Z, Z>>,
          << <<4, 4, 4, 4>>, Z, Z, Z >>,
          << <<1024, 1024, 0, 0>>, Z, Z, Z >>,
          Transpose(<< <<1024, 1024, 0, 0>>, Z, Z, Z >>) }

\* The scores the tests start from.
FixtureScores == {0, 100}

\* Board sizes constructed in SpecMove.
MoveSizes == {2}

\* The flags the tests set before the call: none, won, or game_over.
FixtureFlags == {<<FALSE, FALSE>>, <<TRUE, FALSE>>, <<FALSE, TRUE>>}

Fixture ==
    /\ size = DefaultSize
    /\ op = "fixture"
    /\ \/ \E b \in LineBoards \cup TestBoards : Holds(init_fields(b))
       \/ \E sc \in FixtureScores : \E fl \in FixtureFlags :
             Holds([init_fields(ScoredBoard) EXCEPT
                      !.score = sc, !.won = fl[1], !.game_over = fl[2]])

\* The board of test_custom_size_movement, on an engine of size 3.
CustomBoard == << <<2, 2, 0>>, <<0, 0, 0>>, <<0, 0, 0>> >>

CustomFixture ==
    /\ size = Len(CustomBoard)
    /\ op = "fixture"
    /\ Holds(init_fields(CustomBoard))

InitMove == Fixture \/ CustomFixture \/ \E n \in MoveSizes : Constructed(n)

NextMove == \E d \in AnyDirection : move(d)

SpecMove == InitMove /\ [][NextMove]_vars

----------------------------------------------------------------------------
\* SpecConstruct: reset() on an engine constructed with any size up to
\* MaxSize, or set up the way the tests do.

InitConstruct == Fixture \/ \E n \in 0..MaxSize : Constructed(n)

NextConstruct == reset

SpecConstruct == InitConstruct /\ [][NextConstruct]_vars

----------------------------------------------------------------------------
\* SpecReset: any sequence of move() and reset() calls on an engine of size 2,
\* as constructed or with its board assigned the way the tests assign it, so
\* that the play reaches won and lost games.

\* The values of the cells assigned.
SmallValues == {0, 2, 4, 1024}

\* The boards assigned: any content of the four cells.
SmallBoards ==
    {<< <<a, b>>, <<c, d>> >> : a \in SmallValues, b \in SmallValues,
                                c \in SmallValues, d \in SmallValues}

SmallFixture ==
    /\ size = 2
    /\ op = "fixture"
    /\ \E b \in SmallBoards : Holds(init_fields(b))

InitReset == SmallFixture \/ Constructed(2)

SpecReset == InitReset /\ [][Next]_vars

----------------------------------------------------------------------------
\* SpecChecked: any sequence of move() and reset() calls on an engine of size
\* 2, as constructed or set up the way test_game_over_condition does: the
\* board is assigned and _check_game_state() is called on it.

CheckedFixture ==
    /\ size = 2
    /\ op = "fixture"
    /\ \E b \in SmallBoards :
          \E c \in {check_game_state(b, 2, FALSE, FALSE)} :
              Holds([init_fields(b) EXCEPT !.won = c.won, !.game_over = c.game_over])

InitChecked == CheckedFixture \/ Constructed(2)

SpecChecked == InitChecked /\ [][Next]_vars

\* A game played to its end without reset(): the player calls move() with
\* any argument and never gives up while some direction still moves a tile.
\* The games start from the constructor and from the boards of SmallFixture
\* that hold at least two tiles, as every board of a game does, so that
\* games ending in a win are played too.
PlayFixture ==
    /\ size = 2
    /\ op = "fixture"
    /\ \E b \in SmallBoards :
          /\ Cardinality({rc \in (1..2) \X (1..2) : b[rc[1]][rc[2]] # 0}) >= 2
          /\ \E c \in {check_game_state(b, 2, FALSE, FALSE)} :
                Holds([init_fields(b) EXCEPT !.won = c.won,
                                             !.game_over = c.game_over])

InitPlay == PlayFixture \/ Constructed(2)

NextPlay == \E d \in AnyDirection : move(d)

\* Some direction would make move() return True.
CanMove == \E d \in Directions : Effective(Fields, size, d)

\* The player keeps making effective moves while one exists: weak fairness
\* of the calls of move() that return True, written out. Such a call is
\* enabled exactly when CanMove holds, and a step of NextPlay is one exactly
\* when it leaves op = "move" and ret = TRUE.
PlayerKeepsMoving ==
    \/ []<>(~CanMove)
    \/ []<><<op' = "move" /\ ret'>>_vars

SpecPlay == InitPlay /\ [][NextPlay]_vars /\ PlayerKeepsMoving

----------------------------------------------------------------------------
\* SpecCopy: get_board() and what its caller does with the matrix returned.
\* A matrix is a Python list of row lists; the model keeps, with the value the
\* caller sees, which of its list objects are the engine's own: same_list
\* when the outer list is self.board itself, same_rows for the positions whose
\* row list is the engine's row list.

\* The values the caller writes.
WriteValues == {0, 999}

\* Variant: return list(self.board), a new outer list of the same row lists.
get_board_shallow(b) ==
    [matrix |-> b, same_list |-> FALSE, same_rows |-> 1..Len(b), writes |-> 0]

\* return [row[:] for row in self.board]: a new outer list of new row lists.
get_board(b) ==
    [matrix    |-> AsSeq([r \in 1..Len(b) |-> AsSeq([c \in 1..Len(b[r]) |-> b[r][c]])]),
     same_list |-> FALSE,
     same_rows |-> {},
     writes    |-> 0]

\* The caller's step leaves the engine's other fields and the record of the
\* last move() call.
CallerStep(name) ==
    /\ op' = name
    /\ before' = Fields
    /\ UNCHANGED <<size, score, game_over, won, moved, dir, ret, slid, moves, ui>>

\* board_copy = game.get_board()
get_board_call ==
    /\ returned' = get_board(board)
    /\ board' = board
    /\ CallerStep("get_board")

\* board_copy[r][c] = v: the write lands in the engine's row when the row list
\* is shared.
write_cell(r, c, v) ==
    /\ returned.writes < MaxWrites
    /\ r \in 1..Len(returned.matrix)
    /\ c \in 1..Len(returned.matrix[r])
    /\ returned' = [returned EXCEPT !.matrix[r][c] = v, !.writes = @ + 1]
    /\ board' = IF returned.same_list \/ r \in returned.same_rows
                THEN [board EXCEPT ![r][c] = v]
                ELSE board
    /\ CallerStep("write_cell")

\* board_copy[r] = [v] * size: the new row lands in the engine's board when the
\* outer list is shared.
replace_row(r, v) ==
    /\ returned.writes < MaxWrites
    /\ r \in 1..Len(returned.matrix)
    /\ \E row \in {AsSeq([c \in 1..size |-> v])} :
          /\ returned' = [returned EXCEPT !.matrix[r] = row,
                                          !.same_rows = @ \ {r},
                                          !.writes = @ + 1]
          /\ board' = IF returned.same_list THEN [board EXCEPT ![r] = row] ELSE board
    /\ CallerStep("replace_row")

InitCopy == Fixture \/ \E n \in MoveSizes : Constructed(n)

NextCopy ==
    \/ get_board_call
    \/ \E r \in 1..size : \E c \in 1..size : \E v \in WriteValues : write_cell(r, c, v)
    \/ \E r \in 1..size : \E v \in WriteValues : replace_row(r, v)

SpecCopy == InitCopy /\ [][NextCopy]_vars

----------------------------------------------------------------------------
\* The main window, class MainWindow of src/src/main_window.py, with the
\* board widget it holds: the key handler, the New Game button, the redraw
\* and the two prompts. `ui` records the widget's previous_board and, of the
\* last handler run, the cells classified as new tiles, the value move()
\* returned, the number of redraws and the prompt shown; win_shown and
\* over_shown count the prompts shown since the last reset(). A prompt is a
\* modal dialog: update_display waits in it, in a nested event loop, until
\* the user closes it, and `ui.dialog` names the dialog that is open. While
\* one is open the window receives no key and no click. The timer callbacks
\* a redraw queues run meanwhile; they touch only the tiles' display, which
\* is not part of the state here.

\* Prompts explored per game.
MaxPrompts == 2

\* The keys: the four arrow keys of key_map, named by their direction, and
\* any other key.
Keys == Directions \cup {"other"}

\* The answers to the game-over question.
Replies == {"yes", "no"}

\* new_tiles of _animate_board_update: the changed cells that were 0 and
\* now hold 2 or 4.
new_tiles(old_board, new_board) ==
    {rc \in (1..Len(new_board)) \X (1..Len(new_board)) :
        /\ new_board[rc[1]][rc[2]] # old_board[rc[1]][rc[2]]
        /\ new_board[rc[1]][rc[2]] # 0
        /\ old_board[rc[1]][rc[2]] = 0
        /\ new_board[rc[1]][rc[2]] \in {2, 4}}

\* GameBoardWidget.update_board(animate) on a widget w whose engine holds
\* board b: animated only when a previous board is kept.
update_board(w, b, animate) ==
    [w EXCEPT !.new_tiles = IF animate /\ w.previous_board # <<>>
                            THEN new_tiles(w.previous_board, b)
                            ELSE {},
              !.previous_board = b,
              !.redraws = @ + 1]

\* if self.game.won: ... elif self.game.game_over: ...
Prompt(f) == IF f.won THEN "win" ELSE IF f.game_over THEN "over" ELSE "none"

\* MainWindow.update_display(animate), on an engine with fields f, up to
\* the point where it returns or waits in the dialog it has opened.
update_display(w, f, animate) ==
    LET shown == update_board(w, f.board, animate)
        p     == Prompt(f)
    IN  [shown EXCEPT !.prompt = IF p = "none" THEN @ ELSE p,
                      !.win_shown = IF p = "win" THEN @ + 1 ELSE @,
                      !.over_shown = IF p = "over" THEN @ + 1 ELSE @,
                      !.dialog = p]

\* MainWindow.new_game(), when reset() draws board b.
new_game(w, b) ==
    update_display([w EXCEPT !.previous_board = <<>>,
                             !.win_shown = 0, !.over_shown = 0],
                   reset_fields(b), FALSE)

\* A handler is entered.
Entered(w, name) ==
    [w EXCEPT !.handler = name, !.moved = FALSE, !.redraws = 0,
              !.prompt = "none", !.new_tiles = {}]

\* Variant: the display is updated whatever move() returned.
RedrawsAlways(m) == TRUE

\* if moved: self.update_display(animate=True)
Redraws(m) == m

\* The engine after self.game.move(d) with outcome o.
EngineMoved(d, o) ==
    /\ board' = o.board
    /\ score' = o.score
    /\ won' = o.won
    /\ game_over' = o.game_over
    /\ moved' = o.moved
    /\ op' = "move"
    /\ dir' = d
    /\ ret' = o.ret
    /\ before' = Fields
    /\ slid' = o.slid
    /\ UNCHANGED <<size, returned>>

\* The engine after self.game.reset() drew board b, called with fields f.
EngineReset(f, b) ==
    \E g \in {reset_fields(b)} :
        /\ board' = g.board
        /\ score' = g.score
        /\ won' = g.won
        /\ game_over' = g.game_over
        /\ moved' = g.moved
        /\ op' = "reset"
        /\ dir' = "none"
        /\ ret' = FALSE
        /\ before' = [f EXCEPT !.board = g.board]
        /\ slid' = g.board
        /\ UNCHANGED <<size, returned>>

\* The prompts of window w are within the number explored.
PromptsWithinBound(w) == w.win_shown <= MaxPrompts /\ w.over_shown <= MaxPrompts

\* keyPressEvent(event) for key k, up to its return or to the dialog its
\* redraw opens. `moves` counts the handler runs that changed the engine; a
\* run that would change it is explored within the budget only.
key_press(k) ==
    /\ ui.dialog = "none"
    /\ IF k \notin Directions
       THEN /\ ui' = Entered(ui, "key")
            /\ UNCHANGED <<size, board, score, game_over, won, moved, op, dir, ret,
                           before, slid, moves, returned>>
       ELSE \E o \in IF moves < MaxMoves \/ ~Effective(Fields, size, k)
                     THEN move_outcomes(Fields, size, k)
                     ELSE {} :
              \E w \in {[Entered(ui, "key") EXCEPT !.moved = o.ret]} :
                 /\ EngineMoved(k, o)
                 /\ moves' = IF o.ret THEN moves + 1 ELSE moves
                 /\ IF ~Redraws(o.ret)
                    THEN ui' = w
                    ELSE \E shown \in {update_display(w, o, TRUE)} :
                           /\ PromptsWithinBound(shown)
                           /\ ui' = shown

\* The win message is closed: update_display and the key handler return.
win_message_closed ==
    /\ ui.dialog = "win"
    /\ ui' = [ui EXCEPT !.dialog = "none"]
    /\ UNCHANGED <<size, board, score, game_over, won, moved, op, dir, ret,
                   before, slid, moves, returned>>

\* The game-over question is answered: with Yes update_display calls
\* new_game(), with No it returns; then the key handler returns.
question_answered(reply) ==
    /\ ui.dialog = "over"
    /\ IF reply = "yes"
       THEN /\ \E b \in FreshBoards(size) :
                 /\ EngineReset(Fields, b)
                 /\ ui' = new_game(ui, b)
            /\ moves' = moves
       ELSE /\ ui' = [ui EXCEPT !.dialog = "none"]
            /\ UNCHANGED <<size, board, score, game_over, won, moved, op, dir, ret,
                           before, slid, moves, returned>>

\* The New Game button is clicked: new_game().
new_game_clicked ==
    /\ ui.dialog = "none"
    /\ moves < MaxMoves
    /\ \E b \in FreshBoards(size) :
          /\ EngineReset(Fields, b)
          /\ ui' = new_game(Entered(ui, "new_game"), b)
    /\ moves' = moves + 1

\* Boards of games in play that the window shows: two 1024 tiles next to
\* each other, tiles that slide without merging, and a board one move from
\* a loss.
WindowBoards ==
    LET Z == Zeros(DefaultSize)
    IN  { << <<1024, 1024, 0, 0>>, Z, Z, Z >>,
          << <<0, 0, 0, 2>>, <<0, 0, 2, 4>>, Z, Z >>,
          << <<0, 2, 4, 8>>, <<16, 32, 64, 128>>,
             <<2, 4, 8, 16>>, <<32, 64, 128, 256>> >> }

\* A window whose game has been played up to one of these boards; the board
\* was drawn when the last handler ended. The score plays no part in the
\* handlers and is left at 0.
InitUI ==
    /\ size = DefaultSize
    /\ op = "play"
    /\ \E b \in WindowBoards :
          /\ HoldsFields(init_fields(b))
          /\ ui = [update_board(NoWindow, b, FALSE) EXCEPT !.handler = "init"]

NextUI ==
    \/ \E k \in Keys : key_press(k)
    \/ win_message_closed
    \/ \E reply \in Replies : question_answered(reply)
    \/ new_game_clicked

SpecUI == InitUI /\ [][NextUI]_vars

----------------------------------------------------------------------------
\* The statements checked. They are written from the specification's words,
\* on sequences taken apart with Head and Tail, and do not use the slide
\* routines above.

\* The non-zero values of a line, in order.
RECURSIVE Compact(_)
Compact(s) ==
    IF s = <<>> THEN <<>>
    ELSE IF Head(s) = 0 THEN Compact(Tail(s))
    ELSE <<Head(s)>> \o Compact(Tail(s))

\* Equal neighbours paired from the front, a merged tile never paired again.
RECURSIVE PairUp(_)
PairUp(s) ==
    IF Len(s) < 2 THEN s
    ELSE IF s[1] = s[2] THEN <<2 * s[1]>> \o PairUp(Tail(Tail(s)))
    ELSE <<s[1]>> \o PairUp(Tail(s))

\* The sum of the doubled values of those pairs.
RECURSIVE PairGain(_)
PairGain(s) ==
    IF Len(s) < 2 THEN 0
    ELSE IF s[1] = s[2] THEN 2 * s[1] + PairGain(Tail(Tail(s)))
    ELSE PairGain(Tail(s))

\* The number of those pairs.
RECURSIVE PairCount(_)
PairCount(s) ==
    IF Len(s) < 2 THEN 0
    ELSE IF s[1] = s[2] THEN 1 + PairCount(Tail(Tail(s)))
    ELSE PairCount(Tail(s))

Reverse(s) == [i \in 1..Len(s) |-> s[Len(s) + 1 - i]]

\* Line k of board b for direction d, read from the end the tiles move toward.
LineFromTarget(b, d, k) ==
    CASE d = "left"  -> b[k]
      [] d = "right" -> Reverse(b[k])
      [] d = "up"    -> [r \in 1..Len(b) |-> b[r][k]]
      [] d = "down"  -> Reverse([r \in 1..Len(b) |-> b[r][k]])

\* That line after the slide, read the same way.
ExpectedLine(line) ==
    LET p == PairUp(Compact(line))
    IN  p \o [j \in 1..(Len(line) - Len(p)) |-> 0]

\* The slide of board b in direction d leaves every line as specified.
SlidAsSpecified(b, d, after) ==
    \A k \in 1..Len(b) :
        \E got \in {LineFromTarget(after, d, k)} :
        \E expected \in {ExpectedLine(LineFromTarget(b, d, k))} :
            \A j \in 1..Len(b) : got[j] = expected[j]

\* The slide of board b in direction d changes no cell.
SlideChangesNothing(b, d) == SlidAsSpecified(b, d, b)

RECURSIVE SumTo(_, _)
SumTo(f, k) == IF k = 0 THEN 0 ELSE f[k] + SumTo(f, k - 1)

\* The score the merges of one slide add, and the number of those merges.
MergeSum(b, d) ==
    SumTo([k \in 1..Len(b) |-> PairGain(Compact(LineFromTarget(b, d, k)))], Len(b))

MergeCount(b, d) ==
    SumTo([k \in 1..Len(b) |-> PairCount(Compact(LineFromTarget(b, d, k)))], Len(b))

Cells(b) == (1..Len(b)) \X (1..Len(b))

Tiles(b) == Cardinality({rc \in Cells(b) : b[rc[1]][rc[2]] # 0})

Has(b, v) == \E rc \in Cells(b) : b[rc[1]][rc[2]] = v

\* Two cells next to each other in a row or in a column.
Adjacent(p, q) ==
    \/ p[1] = q[1] /\ (p[2] - q[2] = 1 \/ q[2] - p[2] = 1)
    \/ p[2] = q[2] /\ (p[1] - q[1] = 1 \/ q[1] - p[1] = 1)

NoEqualNeighbours(b) ==
    \A p \in Cells(b) : \A q \in Cells(b) :
        Adjacent(p, q) => b[p[1]][p[2]] # b[q[1]][q[2]]

\* The last operation was a move() call, entered in progress with a
\* recognized direction: its slide phase ran.
SlideRan ==
    /\ op = "move"
    /\ dir \in Directions
    /\ ~before.won
    /\ ~before.game_over

\* The fields the claims compare, of the engine now and on entry of the call.
Unchanged ==
    /\ board = before.board
    /\ score = before.score
    /\ won = before.won
    /\ game_over = before.game_over

\* C1: for every board and every recognized direction, the slide phase of
\* move() rewrites each line to its non-zero values in order, read from the
\* end the tiles move toward, with equal neighbours paired once (a merged tile
\* is not merged again), then zeros: [2,2,2,2] gives [4,4,0,0] and [2,2,4,4]
\* gives [4,8,0,0].
C1_SlideNoCascade ==
    SlideRan =>
        /\ SlidAsSpecified(before.board, dir, slid)
        /\ (dir = "left" /\ before.board[1] = <<2, 2, 2, 2>>) => slid[1] = <<4, 4, 0, 0>>
        /\ (dir = "left" /\ before.board[1] = <<2, 2, 4, 4>>) => slid[1] = <<4, 8, 0, 0>>

\* A move to the right of a row holding [2,2,2,4] has acted: the pair nearest
\* the right edge of the three 2s merged and the 4 it met was left alone.
C1_Witness ==
    /\ SlideRan
    /\ dir = "right"
    /\ before.board[1] = <<2, 2, 2, 4>>
    /\ slid[1] = <<0, 2, 4, 4>>

\* C2: one move() call adds to the score exactly the sum, over all lines, of
\* the doubled values of the merges of that move, on top of the score the
\* engine had on entry.
C2_ScoreAddsMergeSum ==
    op = "move" =>
        score = before.score + (IF SlideRan THEN MergeSum(before.board, dir) ELSE 0)

\* A move to the left of [2,2,4,4] on an engine whose score was 100 has acted
\* and left the score 112.
C2_Witness ==
    /\ SlideRan
    /\ dir = "left"
    /\ before.board[1] = <<2, 2, 4, 4>>
    /\ before.score = 100
    /\ score = 112

\* C3: after a move() that returned True, the board differs from the slide
\* result in exactly one cell, empty in the slide result and now 2 or 4; the
\* slide result had an empty cell; and the number of tiles is the number
\* before the move, minus the merges, plus one.
C3_SpawnOneTile ==
    (op = "move" /\ ret) =>
        /\ \E rc \in Cells(slid) : slid[rc[1]][rc[2]] = 0
        /\ \E rc \in Cells(slid) :
              /\ slid[rc[1]][rc[2]] = 0
              /\ board[rc[1]][rc[2]] \in {2, 4}
              /\ \A q \in Cells(slid) : q # rc => board[q[1]][q[2]] = slid[q[1]][q[2]]
        /\ Tiles(board) = Tiles(before.board) - MergeCount(before.board, dir) + 1

\* An effective move with two merges has acted: the board holds one tile
\* fewer than before although one was spawned.
C3_Witness ==
    /\ op = "move"
    /\ ret
    /\ MergeCount(before.board, dir) = 2
    /\ Tiles(board) = Tiles(before.board) - 1

\* C4: a move() in a recognized direction that changes no cell value returns
\* False and leaves board, score, won and game_over as they were.
C4_NoOpMoveChangesNothing ==
    (op = "move" /\ dir \in Directions /\ SlideChangesNothing(before.board, dir)) =>
        (~ret /\ Unchanged)

\* A move to the left of a full board with no equal neighbours, first row
\* [2,4,2,4], has returned False: no tile was added and game_over is still
\* False, so terminal detection did not run.
C4_Witness ==
    /\ SlideRan
    /\ dir = "left"
    /\ before.board[1] = <<2, 4, 2, 4>>
    /\ ~Has(before.board, 0)
    /\ NoEqualNeighbours(before.board)
    /\ ~ret
    /\ ~game_over
    /\ board = before.board

\* C5: in progress, move(direction) returns True if and only if the slide for
\* that direction changes at least one cell, and whenever it returns True the
\* board afterwards differs from the board before the call.
C5_ReturnsTrueIffSlideChanges ==
    SlideRan =>
        /\ ret <=> ~SlideChangesNothing(before.board, dir)
        /\ ret => board # before.board

\* A move up has returned True where only the first column changed.
C5_Witness ==
    /\ SlideRan
    /\ dir = "up"
    /\ ret
    /\ \A r \in 1..size : \A c \in 2..size : slid[r][c] = before.board[r][c]
    /\ size = DefaultSize

\* C6: once won or game_over is True, every move() call returns False and
\* leaves board, score, won and game_over unchanged.
C6_TerminalMoveRefused ==
    (op = "move" /\ (before.won \/ before.game_over)) => (~ret /\ Unchanged)

\* A move() call has been refused on a won engine whose board that direction
\* would have changed.
C6_Witness ==
    /\ op = "move"
    /\ before.won
    /\ dir \in Directions
    /\ ~SlideChangesNothing(before.board, dir)
    /\ ~ret
    /\ Unchanged

\* C7: after an effective move, won is True whenever any cell of the board
\* equals 2048; in particular the move that produces a 2048 tile by merging
\* returns with that tile on the board and won True.
C7_WinDetected ==
    (op = "move" /\ ret) =>
        /\ Has(board, WinTile) => won
        /\ (Has(slid, WinTile) /\ ~Has(before.board, WinTile)) =>
              (Has(board, WinTile) /\ won)

\* A move has merged two 1024 tiles into a 2048 outside the first row, and
\* returned with won True.
C7_Witness ==
    /\ op = "move"
    /\ ret
    /\ ~Has(before.board, WinTile)
    /\ \E rc \in Cells(board) : rc[1] > 1 /\ board[rc[1]][rc[2]] = WinTile
    /\ won

\* C8: on a board without a 2048 cell, terminal detection sets game_over if
\* and only if the board has no empty cell and no two horizontally or
\* vertically adjacent cells are equal.
C8_LossDetected ==
    (op = "move" /\ ret /\ ~Has(board, WinTile)) =>
        (game_over <=> (~Has(board, 0) /\ NoEqualNeighbours(board)))

\* An effective move has filled the last empty cell, left no equal
\* neighbours, and returned with game_over True.
C8_Witness ==
    /\ op = "move"
    /\ ret
    /\ Has(slid, 0)
    /\ ~Has(board, 0)
    /\ game_over

\* C9: the score is never negative, no move() call lowers it, and reset()
\* sets it to exactly 0.
C9_ScoreMonotone ==
    /\ score >= 0
    /\ op = "move" => score >= before.score
    /\ op = "reset" => score = 0

\* reset() has acted on an engine whose score was positive.
C9_Witness ==
    /\ op = "reset"
    /\ before.score > 0
    /\ score = 0

\* C10: right after construction with a size of at least 2, and right after
\* every reset(), the board has exactly 2 non-zero cells, each 2 or 4, the
\* score is 0 and won and game_over are False.
C10_FreshGame ==
    (op \in {"init", "reset"} /\ size >= 2) =>
        /\ Tiles(board) = 2
        /\ \A rc \in Cells(board) : board[rc[1]][rc[2]] \in {0, 2, 4}
        /\ score = 0
        /\ ~won
        /\ ~game_over

\* reset() has acted on a won engine of the default size with a positive
\* score.
C10_Witness ==
    /\ op = "reset"
    /\ size = DefaultSize
    /\ before.won
    /\ before.score > 0
    /\ Tiles(board) = 2

\* C11: reset() can be called in every reachable state, Won and Lost included;
\* it leaves won and game_over False, and the next move() call in a recognized
\* direction whose slide changes a cell is accepted and returns True.
C11_ResetAlwaysAvailable ==
    /\ [](ENABLED reset)
    /\ [](op = "reset" => (~won /\ ~game_over))
    /\ [][(op = "reset" /\ op' = "move" /\ dir' \in Directions
             /\ ~SlideChangesNothing(board, dir')) => (ret' /\ board' # board)]_vars

\* reset() has acted on an engine whose game was won, and left a board a move
\* to the left changes.
C11_Witness ==
    /\ op = "reset"
    /\ before.won
    /\ ~game_over
    /\ ~won
    /\ ~SlideChangesNothing(board, "left")

\* C12: in every state reached by construction with size n and any sequence of
\* move() and reset() calls, the board has exactly n rows of exactly n cells.
C12_BoardIsSquare ==
    /\ Len(board) = size
    /\ \A r \in 1..Len(board) : Len(board[r]) = size

\* An effective move with a merge has acted on a board of size 2 in a game
\* that had already scored: the merged line was padded back to two cells.
C12_Witness ==
    /\ op = "move"
    /\ ret
    /\ size = 2
    /\ MergeCount(before.board, dir) >= 1
    /\ before.score > 0
    /\ Len(board) = 2
    /\ Len(board[1]) = 2
    /\ Len(board[2]) = 2

\* C13: get_board() returns the board's values in a matrix of its own, rows
\* included: after the caller writes a cell of it or replaces a row of it, the
\* engine's board is what it was, and so is what get_board() returns next.
C13_GetBoardIsACopy ==
    /\ op = "get_board" => returned.matrix = board
    /\ op \in {"write_cell", "replace_row"} =>
          /\ board = before.board
          /\ get_board(board).matrix = before.board

\* The caller has written 999 into cell (1,1) of the matrix returned for a
\* board of the default size, and the engine's cell is not 999.
C13_Witness ==
    /\ op = "write_cell"
    /\ size = DefaultSize
    /\ returned.matrix[1][1] = 999
    /\ board[1][1] # 999
    /\ board = before.board

\* Every row of board b reversed.
MirrorRows(b) == AsSeq([r \in 1..Len(b) |-> AsSeq(Reverse(b[r]))])

\* C14: right is the mirror image of left: the board a right slide leaves, the
\* score it adds and the flag it returns are those of a left slide of the board
\* with every row reversed, its rows reversed back; and the same with left and
\* right exchanged. [0,2,0,2] left gives [4,0,0,0]; [2,0,2,0] right gives
\* [0,0,0,4].
C14_RightMirrorsLeft ==
    /\ (SlideRan /\ dir = "right") =>
          \E l \in {move_left(MirrorRows(before.board), size)} :
              /\ slid = MirrorRows(l.board)
              /\ score = before.score + l.gain
              /\ ret = l.moved
    /\ (SlideRan /\ dir = "left") =>
          \E r \in {move_right(MirrorRows(before.board), size)} :
              /\ slid = MirrorRows(r.board)
              /\ score = before.score + r.gain
              /\ ret = r.moved
    /\ (SlideRan /\ dir = "left" /\ before.board[1] = <<0, 2, 0, 2>>) =>
          slid[1] = <<4, 0, 0, 0>>
    /\ (SlideRan /\ dir = "right" /\ before.board[1] = <<2, 0, 2, 0>>) =>
          slid[1] = <<0, 0, 0, 4>>

\* A move to the right of a row holding [2,2,2,0] has acted: the pair at the
\* right edge merged, as the pair at the left edge of [0,2,2,2] does in a move
\* to the left.
C14_Witness ==
    /\ SlideRan
    /\ dir = "right"
    /\ before.board[1] = <<2, 2, 2, 0>>
    /\ slid[1] = <<0, 0, 2, 4>>
    /\ move_left(MirrorRows(before.board), size).board[1] = <<4, 2, 0, 0>>

\* Board b with rows and columns exchanged.
Transposed(b) == AsSeq([r \in 1..Len(b) |-> AsSeq([c \in 1..Len(b) |-> b[c][r]])])

\* C15: the column routines agree with the row routines on the transposed
\* board: the board an up (down) slide leaves, the score it adds and the flag
\* it returns are those of a left (right) slide of the transpose, transposed
\* back.
C15_ColumnsAreTransposedRows ==
    /\ (SlideRan /\ dir = "up") =>
          \E l \in {move_left(Transposed(before.board), size)} :
              /\ slid = Transposed(l.board)
              /\ score = before.score + l.gain
              /\ ret = l.moved
    /\ (SlideRan /\ dir = "down") =>
          \E r \in {move_right(Transposed(before.board), size)} :
              /\ slid = Transposed(r.board)
              /\ score = before.score + r.gain
              /\ ret = r.moved

\* A move down has acted on a board that is not its own transpose, whose first
\* column held [2,2,2,0] from the top: the pair nearest the bottom merged.
C15_Witness ==
    /\ SlideRan
    /\ dir = "down"
    /\ before.board # Transposed(before.board)
    /\ \A r \in 1..4 : before.board[r][1] = <<2, 2, 2, 0>>[r]
    /\ \A r \in 1..4 : slid[r][1] = <<0, 0, 2, 4>>[r]
    /\ ret

\* C16: in every state reached by construction with a size of at least 2 and
\* any sequence of move() and reset() calls, at least 2 cells are non-zero.
C16_AtLeastTwoTiles ==
    size >= 2 => Tiles(board) >= 2

\* An effective move has merged the only two tiles of a board into one, and
\* the spawn brought the count back to two.
C16_Witness ==
    /\ op = "move"
    /\ ret
    /\ size >= 2
    /\ Tiles(before.board) = 2
    /\ Tiles(slid) = 1
    /\ Tiles(board) = 2

\* C17: once won is True it stays True across every move() call, whatever the
\* direction; the only operation after which it is False again is reset().
C17_WonIsSticky ==
    /\ [][(won /\ op' = "move") => won']_vars
    /\ [][(won /\ ~won') => op' = "reset"]_vars

\* A game won by play (the merge scored 2048 or more) has been moved again in
\* a direction that would change its board, and won is still True.
C17_Witness ==
    /\ op = "move"
    /\ before.won
    /\ before.score >= WinTile
    /\ dir \in Directions
    /\ ~SlideChangesNothing(before.board, dir)
    /\ won

\* C18: a move() call whose direction is not one of the four recognized values
\* ends with an explicit error: an outcome that is neither True nor the False
\* a move that changes nothing returns.
C18_InvalidDirectionIsError ==
    (op = "move" /\ dir \notin Directions) => ret \notin BOOLEAN

\* C19: construction with a size below 2 fails with an explicit error, so that
\* no engine exists whose board is smaller than 2 by 2.
C19_SmallSizeRejected ==
    /\ size >= 2
    /\ Len(board) >= 2

\* C20 as claimed: after move() returns, every line of the board, read from
\* the end the tiles moved toward, is its merged sequence followed by zeros:
\* after a move to the left of a board whose only tiles are the first row
\* [4,4,4,4], that row is [8,8,0,0].
C20_LinesPaddedAfterMove ==
    SlideRan =>
        /\ SlidAsSpecified(before.board, dir, board)
        /\ (dir = "left" /\ before.board = << <<4, 4, 4, 4>> >> \o EmptyBoard(3)) =>
              board[1] = <<8, 8, 0, 0>>

\* The choices a spawn can make on board b: an empty cell and a value.
SpawnChoices(b) ==
    {<<rc, v>> : rc \in {q \in Cells(b) : b[q[1]][q[2]] = 0}, v \in {2, 4}}

\* C21: apart from the choice of the spawn cell and of the spawn value, move()
\* is deterministic: from one state and one direction, all its outcomes have
\* the same slide result, score and return value; an outcome that returned
\* True is the slide result with one spawn choice applied, one that returned
\* False is the slide result itself; and two outcomes with the same board
\* (the same spawn choice) have the same won and game_over.
C21_DeterministicGivenSpawn ==
    \A d \in AnyDirection :
        \E outs \in {move_outcomes(Fields, size, d)} :
            /\ outs # {}
            /\ \E first \in outs : \A o \in outs :
                  /\ o.slid = first.slid
                  /\ o.score = first.score
                  /\ o.ret = first.ret
                  /\ IF o.ret
                     THEN \E ch \in SpawnChoices(o.slid) :
                              o.board = [o.slid EXCEPT ![ch[1][1]][ch[1][2]] = ch[2]]
                     ELSE o.board = o.slid
            /\ Cardinality({o.board : o \in outs}) = Cardinality(outs)

\* A move has acted from a state where the slide left more than one empty
\* cell: the outcome observed is the only one of that call with its board.
C21_Witness ==
    /\ op = "move"
    /\ ret
    /\ Cardinality(SpawnChoices(slid)) >= 4
    /\ Cardinality({o \in move_outcomes(before, size, dir) : o.board = board}) = 1
    /\ Cardinality(move_outcomes(before, size, dir)) = Cardinality(SpawnChoices(slid))

\* The cell in which board b differs from the slide result s.
SpawnedAt(s, b) == {rc \in Cells(b) : b[rc[1]][rc[2]] # s[rc[1]][rc[2]]}

\* C22: the spawned tile is 2 with probability 0.9 and 4 with probability 0.1,
\* and its cell is uniform among the empty cells: of the equally likely draws
\* of the position, each empty cell is picked by exactly one and no other cell
\* is picked; of the ten equally likely tenths of the value draw, nine give 2
\* and one gives 4; and the tile an effective move spawned is one of them.
C22_SpawnDistribution ==
    \E ec \in {empty_cells(board)} :
        /\ \A rc \in Cells(board) :
              Cardinality({i \in 1..Len(ec) : random_choice(ec, i) = rc}) =
                  (IF board[rc[1]][rc[2]] = 0 THEN 1 ELSE 0)
        /\ \A i \in 1..Len(ec) : \E rc \in {random_choice(ec, i)} :
              /\ Cardinality({t \in Tenths :
                     add_random_tile_drawn(board, i, t)[rc[1]][rc[2]] = 2}) * 10
                   = 9 * Cardinality(Tenths)
              /\ Cardinality({t \in Tenths :
                     add_random_tile_drawn(board, i, t)[rc[1]][rc[2]] = 4}) * 10
                   = 1 * Cardinality(Tenths)
        /\ ec # <<>> =>
              {add_random_tile_drawn(board, i, t) : i \in 1..Len(ec), t \in Tenths}
                  = add_random_tile(board)
        /\ (op = "move" /\ ret) =>
              \E i \in 1..Len(empty_cells(slid)) : \E t \in Tenths :
                  board = add_random_tile_drawn(slid, i, t)

\* An effective move has spawned a 4, the value of one draw in ten, in one of
\* several empty cells.
C22_Witness ==
    /\ op = "move"
    /\ ret
    /\ Len(empty_cells(slid)) >= 3
    /\ \E rc \in SpawnedAt(slid, board) : board[rc[1]][rc[2]] = 4
    /\ \E i \in 1..Len(empty_cells(slid)) : board = add_random_tile_drawn(slid, i, 9)

\* C23: within a line only tiles adjacent after compaction are paired, from
\* the end the tiles move toward. With t the tiles of a line read from that
\* end: when no two neighbours of t are equal the slide leaves t as it is;
\* when the first two are equal they merge, and a third equal tile stays;
\* when they differ the first stays. [2,0,0,2] left gives [4,0,0,0],
\* [2,4,2,0] left gives [2,4,2,0], [2,2,2,0] left gives [4,2,0,0] and right
\* gives [0,0,2,4].
C23_PairsAdjacentFromTarget ==
    SlideRan =>
        /\ \A k \in 1..size :
              \E t \in {Compact(LineFromTarget(before.board, dir, k))} :
              \E out \in {Compact(LineFromTarget(slid, dir, k))} :
                  /\ (\A i \in 1..(Len(t) - 1) : t[i] # t[i + 1]) => out = t
                  /\ (Len(t) >= 2 /\ t[1] = t[2]) =>
                        /\ out[1] = 2 * t[1]
                        /\ Len(t) = 3 => out = <<2 * t[1], t[3]>>
                        /\ Len(t) >= 3 => out[2] \in {t[3], 2 * t[3]}
                  /\ (Len(t) >= 2 /\ t[1] # t[2]) => out[1] = t[1]
        /\ (dir = "left" /\ before.board[1] = <<2, 0, 0, 2>>) => slid[1] = <<4, 0, 0, 0>>
        /\ (dir = "left" /\ before.board[1] = <<2, 4, 2, 0>>) => slid[1] = <<2, 4, 2, 0>>
        /\ (dir = "left" /\ before.board[1] = <<2, 2, 2, 0>>) => slid[1] = <<4, 2, 0, 0>>
        /\ (dir = "right" /\ before.board[1] = <<2, 2, 2, 0>>) => slid[1] = <<0, 0, 2, 4>>

\* A move to the left has acted on a row [2,4,2,0]: the two 2s, separated by
\* the 4, did not merge.
C23_Witness ==
    /\ SlideRan
    /\ dir = "left"
    /\ before.board[1] = <<2, 4, 2, 0>>
    /\ slid[1] = <<2, 4, 2, 0>>
    /\ score = before.score

\* C24: within one effective move() the slide comes first, then the spawn,
\* then terminal detection, which sees the new tile: the slide result has an
\* empty cell and one tile fewer than the board returned, and when the spawn
\* filled the last empty cell and left no two equal neighbours (and no 2048),
\* game_over is True when that same call returns.
C24_DetectionSeesSpawn ==
    (op = "move" /\ ret) =>
        /\ Has(slid, 0)
        /\ Tiles(board) = Tiles(slid) + 1
        /\ (~Has(board, 0) /\ NoEqualNeighbours(board) /\ ~Has(board, WinTile)) => game_over
        /\ game_over => (~before.game_over /\ ~Has(board, 0))

\* An effective move has returned with game_over True although its slide
\* result still had one empty cell: the spawn filled it.
C24_Witness ==
    /\ op = "move"
    /\ ret
    /\ ~before.game_over
    /\ Tiles(slid) = size * size - 1
    /\ Tiles(board) = size * size
    /\ NoEqualNeighbours(board)
    /\ game_over

\* C25: a move() call with a direction string other than "left", "right",
\* "up" and "down" returns False, spawns no tile and leaves the board, the
\* score, won and game_over as they were.
C25_UnknownDirectionDoesNothing ==
    (op = "move" /\ dir \notin Directions) =>
        /\ ret = FALSE
        /\ slid = before.board
        /\ Tiles(board) = Tiles(before.board)
        /\ Unchanged

\* A move() call with the string "diagonal" has returned False on an engine
\* in progress whose board a move down would have changed.
C25_Witness ==
    /\ op = "move"
    /\ dir = "diagonal"
    /\ ~before.won
    /\ ~before.game_over
    /\ ~SlideChangesNothing(before.board, "down")
    /\ ~ret
    /\ board = before.board

\* C26: in every state of an engine of size at least 2 under move() and
\* reset(), the flags agree with the board: won is True exactly when some
\* cell is 2048, and game_over is True exactly when no cell is 2048, no cell
\* is empty and no two neighbours in a row or a column are equal.
C26_FlagsAgreeWithBoard ==
    size >= 2 =>
        /\ won <=> Has(board, WinTile)
        /\ game_over <=>
              (~Has(board, WinTile) /\ ~Has(board, 0) /\ NoEqualNeighbours(board))

\* A game won by merging two 1024 tiles has been moved again: the call was
\* refused, the 2048 is on the board, won is True and game_over False.
C26_Witness ==
    /\ op = "move"
    /\ before.won
    /\ ~ret
    /\ Has(board, WinTile)
    /\ won
    /\ ~game_over
    /\ score >= WinTile

\* C27: won and game_over are never both True: when the board after an
\* effective move holds a 2048 and is also full with no two equal neighbours,
\* the game is won and not over.
C27_NeverWonAndOver ==
    /\ ~(won /\ game_over)
    /\ (op = "move" /\ ret /\ Has(board, WinTile)
         /\ ~Has(board, 0) /\ NoEqualNeighbours(board)) => (won /\ ~game_over)

\* An effective move has made a 2048 and its spawn filled the board without
\* leaving two equal neighbours: won is True and game_over False.
C27_Witness ==
    /\ op = "move"
    /\ ret
    /\ ~Has(before.board, WinTile)
    /\ Has(board, WinTile)
    /\ ~Has(board, 0)
    /\ NoEqualNeighbours(board)
    /\ won
    /\ ~game_over

\* C28: no stuck state: in every state of an engine of size at least 2 in
\* which won and game_over are both False, move() returns True for at least
\* one of the four directions.
C28_NoStuckState ==
    (size >= 2 /\ ~won /\ ~game_over) =>
        \E d \in Directions : \E o \in move_outcomes(Fields, size, d) : o.ret

\* An effective move has left a full board with the game still in progress,
\* and only merges can move it: some direction changes it, some does not.
C28_Witness ==
    /\ op = "move"
    /\ ret
    /\ ~won
    /\ ~game_over
    /\ ~Has(board, 0)
    /\ \E d \in Directions : ~SlideChangesNothing(board, d)
    /\ \E d \in Directions : SlideChangesNothing(board, d)

\* The sum of the tiles on a board.
TileSum(b) == SumTo([k \in 1..Len(b) |-> SumSeq(b[k])], Len(b))

\* C29: every game terminates. Without reset(), a player who keeps making
\* effective moves while one exists reaches won or game_over, and the number
\* of effective moves is bounded: each one raises the sum of the tiles by the
\* spawned tile, at least 2, and the sum never exceeds size * size * 2048.
C29_GameTerminates ==
    /\ <>(won \/ game_over)
    /\ [][(op' = "move" /\ ret') =>
             TileSum(board') >= TileSum(board) + 2]_vars
    /\ [](TileSum(board) <= size * size * WinTile)

\* An effective move has ended a game that was in progress, with more on the
\* board than before it.
C29_Witness ==
    /\ op = "move"
    /\ ret
    /\ won \/ game_over
    /\ ~before.won
    /\ ~before.game_over
    /\ TileSum(board) >= TileSum(before.board) + 2

\* The tile values of the game: 2, 4, 8, ..., 2048.
PowersOfTwo == {2 ^ k : k \in 1..11}

\* C30: every cell of the board is 0 or a power of two between 2 and 2048:
\* no larger tile is ever produced, because move() is refused from the
\* moment a 2048 tile exists.
C30_CellsArePowersOfTwo ==
    \A rc \in Cells(board) :
        board[rc[1]][rc[2]] = 0 \/ board[rc[1]][rc[2]] \in PowersOfTwo

\* A move has merged two pairs of 1024 at once: the board holds two 2048
\* tiles, which no later move can merge.
C30_Witness ==
    /\ op = "move"
    /\ ret
    /\ won
    /\ Cardinality({rc \in Cells(board) : board[rc[1]][rc[2]] = WinTile}) = 2
    /\ \E d \in Directions : Slide(board, size, d).moved

\* C31: the slide phase conserves the sum of all cell values, for every board
\* and direction; so an effective move() raises the sum of the tiles by the
\* spawned value, 2 or 4, and a rejected move() leaves it unchanged.
C31_SlideConservesSum ==
    /\ \A d \in Directions :
          TileSum(Slide(board, size, d).board) = TileSum(board)
    /\ (op = "move" /\ ret) =>
          /\ TileSum(slid) = TileSum(before.board)
          /\ TileSum(board) - TileSum(before.board) \in SpawnValues
    /\ (op = "move" /\ ~ret) => TileSum(board) = TileSum(before.board)

\* An effective move has merged a pair and spawned a tile: the board holds
\* as many tiles as before, and their sum has grown by the spawned value.
C31_Witness ==
    /\ op = "move"
    /\ ret
    /\ score > before.score
    /\ Tiles(board) = Tiles(before.board)
    /\ TileSum(slid) = TileSum(before.board)
    /\ TileSum(board) = TileSum(slid) + 4

\* C32: after every call of move(), in play as well as in a won or lost
\* game, the attribute moved equals the value the call returned.
C32_MovedIsReturnValue == op = "move" => moved = ret

\* C33: in the main window, between two consecutive resets the win message
\* and the game-over question are each shown at most once, and only right
\* after the effective move that set the flag; a key press whose move()
\* returns False triggers no redraw and no prompt.
C33_PromptsOncePerGame ==
    /\ ui.win_shown <= 1
    /\ ui.over_shown <= 1
    /\ ui.prompt # "none" => ui.handler = "key" /\ ui.moved
    /\ (ui.prompt = "win" /\ op = "move") => ret /\ won /\ ~before.won
    /\ (ui.prompt = "over" /\ op = "move") =>
          ret /\ game_over /\ ~before.game_over
    /\ (ui.handler = "key" /\ ~ui.moved) =>
          ui.redraws = 0 /\ ui.prompt = "none"

\* The win message has been shown once, and a later key press, refused by
\* the won game, has drawn and shown nothing.
C33_Witness ==
    /\ ui.win_shown = 1
    /\ won
    /\ ui.handler = "key"
    /\ op = "move"
    /\ dir \in Directions
    /\ ~ret
    /\ ui.redraws = 0
    /\ ui.prompt = "none"

\* C34: in the animated board update after an effective move, the cells
\* classified as new tiles are exactly the one cell in which the engine
\* spawned the random tile of that move; a tile that slid into a cell that
\* was empty is not classified as new.
C34_NewTilesAreTheSpawn ==
    (ui.handler = "key" /\ ui.moved /\ op = "move" /\ ret) =>
        ui.new_tiles = SpawnedAt(slid, board)

\* The cells in which board nb differs from board b.
ChangedCells(b, nb) == {rc \in Cells(b) : nb[rc[1]][rc[2]] # b[rc[1]][rc[2]]}

\* C35: _add_random_tile never overwrites a non-zero cell: when the board
\* has an empty cell it changes exactly one cell, which was 0, and when the
\* board has none it leaves the board as it is, without error.
C35_SpawnOnlyInEmptyCell ==
    /\ \A nb \in add_random_tile(board) :
          IF Has(board, 0)
          THEN /\ Cardinality(ChangedCells(board, nb)) = 1
               /\ \A rc \in ChangedCells(board, nb) : board[rc[1]][rc[2]] = 0
          ELSE nb = board
    /\ (op = "move" /\ ret) =>
          /\ Cardinality(ChangedCells(slid, board)) = 1
          /\ \A rc \in ChangedCells(slid, board) : slid[rc[1]][rc[2]] = 0

\* A move has spawned its tile in the only empty cell the slide left; the
\* board is now full, and _add_random_tile would leave it as it is.
C35_Witness ==
    /\ op = "move"
    /\ ret
    /\ Tiles(slid) = Tiles(board) - 1
    /\ ~Has(board, 0)
    /\ add_random_tile(board) = {board}

====
